---------------------------- MODULE Spec2Model ----------------------------
(***************************************************************************)
(* Model of the linear_alg crate (src/src/lib.rs): the Vec3 value type,    *)
(* its operators and the free geometric functions over it.                 *)
(*                                                                         *)
(* The crate computes in f64.  The model keeps the IEEE-754 binary         *)
(* semantics of f64 (round to nearest, ties to even; gradual underflow;    *)
(* overflow to infinity; signed zeros; NaN; IEEE comparison) over a        *)
(* binary format of reduced width: Prec bits of significand, the smallest  *)
(* subnormal equal to 2^-ExpLo, and EMax binades above the subnormal       *)
(* range.  A finite float is a sign and a magnitude counted in units of    *)
(* the smallest subnormal.                                                 *)
(***************************************************************************)
EXTENDS Integers, Sequences, FiniteSets, TLC

\* Width of the modelled binary floating-point format.
Prec == 3
ExpLo == 3
EMax == 6
\* How many of the sample component values the inputs are drawn from.
NVals == 6
\* How many rejected draws of one rand_on_unit_sphere call are counted.
MaxRej == 3

RECURSIVE Pow2(_)
Pow2(k) == IF k <= 0 THEN 1 ELSE 2 * Pow2(k - 1)

\* The magnitude of 1.0, of the smallest positive float and of the largest
\* finite float, in units of the smallest subnormal.
UnitOne == Pow2(ExpLo)
MaxMag == (Pow2(Prec) - 1) * Pow2(EMax)

-----------------------------------------------------------------------------
(* f64 values *)

Fin(sg, mag) == [k |-> "fin", s |-> sg, m |-> mag]
Inf(sg) == [k |-> "inf", s |-> sg, m |-> 0]
NaN == [k |-> "nan", s |-> 0, m |-> 0]

Zero == Fin(0, 0)
NegZero == Fin(1, 0)
One == Fin(0, UnitOne)
NegOne == Fin(1, UnitOne)
Two == Fin(0, 2 * UnitOne)
Tiny == Fin(0, 1)
Huge == Fin(0, MaxMag)
\* A float whose significand has every bit set: products with it round.
Odd == Fin(0, Pow2(Prec) - 1)

IsNaN(x) == x.k = "nan"
IsInf(x) == x.k = "inf"
IsFin(x) == x.k = "fin"
IsZero(x) == x.k = "fin" /\ x.m = 0
Xor(p, q) == IF p = q THEN 0 ELSE 1

\* Rounding of the exact non-negative rational n/d (in units of the smallest
\* subnormal) to the nearest float of sign sg, ties to even.
RoundRat(sg, n, d) ==
  IF n >= Pow2(Prec + EMax) * d THEN Inf(sg)
  ELSE LET e == CHOOSE i \in 0..EMax :
                  /\ n < Pow2(Prec + i) * d
                  /\ \A j \in 0..(i - 1) : n >= Pow2(Prec + j) * d
           g == Pow2(e) * d
           c == n \div g
           r == n - c * g
           up == IF 2 * r > g \/ (2 * r = g /\ c % 2 = 1) THEN 1 ELSE 0
           c2 == c + up
       IN  IF c2 = Pow2(Prec) /\ e = EMax THEN Inf(sg)
           ELSE Fin(sg, c2 * Pow2(e))

\* Signed value of a finite float, in units.
Val(x) == IF x.s = 1 THEN 0 - x.m ELSE x.m
Abs(i) == IF i < 0 THEN 0 - i ELSE i

\* f64 unary minus.
FNeg(x) == IF IsNaN(x) THEN NaN ELSE [x EXCEPT !.s = 1 - x.s]

\* The f64 addition of x and y.
AddRounded(x, y) ==
  IF IsNaN(x) \/ IsNaN(y) THEN NaN
  ELSE IF IsInf(x) /\ IsInf(y) THEN (IF x.s = y.s THEN x ELSE NaN)
  ELSE IF IsInf(x) THEN x
  ELSE IF IsInf(y) THEN y
  ELSE LET v == Val(x) + Val(y)
       IN  IF v = 0
           THEN (IF x.s = 1 /\ y.s = 1 THEN NegZero ELSE Zero)
           ELSE RoundRat(IF v < 0 THEN 1 ELSE 0, Abs(v), 1)

\* The f64 multiplication of x and y.
MulRounded(x, y) ==
  IF IsNaN(x) \/ IsNaN(y) THEN NaN
  ELSE IF (IsInf(x) /\ IsZero(y)) \/ (IsZero(x) /\ IsInf(y)) THEN NaN
  ELSE IF IsInf(x) \/ IsInf(y) THEN Inf(Xor(x.s, y.s))
  ELSE RoundRat(Xor(x.s, y.s), x.m * y.m, UnitOne)

\* The f64 division of x and y.
DivRounded(x, y) ==
  IF IsNaN(x) \/ IsNaN(y) THEN NaN
  ELSE IF IsInf(x) /\ IsInf(y) THEN NaN
  ELSE IF IsZero(x) /\ IsZero(y) THEN NaN
  ELSE IF IsInf(x) \/ IsZero(y) THEN Inf(Xor(x.s, y.s))
  ELSE IF IsInf(y) THEN Fin(Xor(x.s, y.s), 0)
  ELSE RoundRat(Xor(x.s, y.s), x.m * UnitOne, y.m)

\* Largest c with c*c <= n.
ISqrt(n) == CHOOSE c \in 0..n : c * c <= n /\ (c + 1) * (c + 1) > n

\* The correctly rounded square root of x.
SqrtRounded(x) ==
  IF IsNaN(x) THEN NaN
  ELSE IF IsZero(x) THEN x
  ELSE IF x.s = 1 THEN NaN
  ELSE IF IsInf(x) THEN x
  ELSE LET n == x.m * UnitOne
           e == CHOOSE i \in 0..EMax :
                  /\ n < Pow2(2 * (Prec + i))
                  /\ \A j \in 0..(i - 1) : n >= Pow2(2 * (Prec + j))
           g == Pow2(e)
           c == ISqrt(n \div (g * g))
           h == (2 * c + 1) * (2 * c + 1) * g * g
           up == IF 4 * n > h \/ (4 * n = h /\ c % 2 = 1) THEN 1 ELSE 0
       IN  Fin(0, (c + up) * g)

\* The floats of the format, and the four operations tabulated over them.
Mags == {i \in 0..MaxMag : \E c \in 0..(Pow2(Prec) - 1), e \in 0..EMax : i = c * Pow2(e)}
Floats == {Fin(sg, mag) : sg \in {0, 1}, mag \in Mags} \cup {Inf(0), Inf(1), NaN}
AddTab == [x \in Floats |-> [y \in Floats |-> AddRounded(x, y)]]
MulTab == [x \in Floats |-> [y \in Floats |-> MulRounded(x, y)]]
DivTab == [x \in Floats |-> [y \in Floats |-> DivRounded(x, y)]]
SqrtTab == [x \in Floats |-> SqrtRounded(x)]

\* f64 +, -, *, / and f64::sqrt.
FAdd(x, y) == AddTab[x][y]
FSub(x, y) == AddTab[x][FNeg(y)]
FMul(x, y) == MulTab[x][y]
FDiv(x, y) == DivTab[x][y]
FSqrt(x) == SqrtTab[x]

\* f64 == and < (IEEE: NaN compares unequal and unordered, -0 == +0).
FEq(x, y) ==
  /\ ~IsNaN(x) /\ ~IsNaN(y)
  /\ \/ IsZero(x) /\ IsZero(y)
     \/ x = y

FLt(x, y) ==
  /\ ~IsNaN(x) /\ ~IsNaN(y)
  /\ IF IsInf(x) THEN x.s = 1 /\ y # x
     ELSE IF IsInf(y) THEN y.s = 0
     ELSE Val(x) < Val(y)

\* i32 -> f64 (From<i32> for f64).
FromInt(i) == IF i = 0 THEN Zero
              ELSE RoundRat(IF i < 0 THEN 1 ELSE 0, Abs(i) * UnitOne, 1)

-----------------------------------------------------------------------------
(* Vec3, its operators and the free functions *)

\* Vec3::new on f64 arguments.
New(vx, vy, vz) == [x |-> vx, y |-> vy, z |-> vz]

\* Vec3::zero.
ZeroVec == New(Zero, Zero, Zero)

\* #[derive(PartialEq)] on Vec3: component-wise f64 ==.
VEq(u, v) == FEq(u.x, v.x) /\ FEq(u.y, v.y) /\ FEq(u.z, v.z)

\* A call either returns a vector or panics.
Ok(v) == [ok |-> TRUE, v |-> v]
Panic == [ok |-> FALSE, v |-> ZeroVec]

\* A scalar argument of a generic T: Into<f64> operator: an i32 or an f64.
IntS(i) == [t |-> "i32", i |-> i, f |-> Zero]
F64S(f) == [t |-> "f64", i |-> 0, f |-> f]
Into(sc) == IF sc.t = "i32" THEN FromInt(sc.i) ELSE sc.f

\* impl ops::Add<Vec3> for Vec3
VAdd(u, v) == New(FAdd(u.x, v.x), FAdd(u.y, v.y), FAdd(u.z, v.z))

\* Sub with the z difference taken against rhs.y.
VSubSlip(u, v) == New(FSub(u.x, v.x), FSub(u.y, v.y), FSub(u.z, v.y))

\* impl ops::Sub<Vec3> for Vec3
VSub(u, v) == New(FSub(u.x, v.x), FSub(u.y, v.y), FSub(u.z, v.z))

\* impl ops::Div<Vec3> for Vec3
DivVec(u, rhs) ==
  IF ~FEq(FMul(FMul(rhs.x, rhs.y), rhs.z), Zero)
  THEN Ok(New(FDiv(u.x, rhs.x), FDiv(u.y, rhs.y), FDiv(u.z, rhs.z)))
  ELSE Panic

\* impl<T: Into<f64>> ops::Mul<T> for Vec3
MulScal(u, sc) ==
  LET val == Into(sc)
  IN  New(FMul(u.x, val), FMul(u.y, val), FMul(u.z, val))

\* Div by a scalar without the zero assertion.
DivScalUnchecked(u, sc) ==
  LET val == Into(sc)
  IN  Ok(New(FDiv(u.x, val), FDiv(u.y, val), FDiv(u.z, val)))

\* impl<T: Into<f64>> ops::Div<T> for Vec3
DivScal(u, sc) ==
  LET val == Into(sc)
  IN  IF ~FEq(val, Zero)
      THEN Ok(New(FDiv(u.x, val), FDiv(u.y, val), FDiv(u.z, val)))
      ELSE Panic

length(v) ==
  FSqrt(FAdd(FAdd(FMul(v.x, v.x), FMul(v.y, v.y)), FMul(v.z, v.z)))

\* normalize with a fallback direction for a vector of length zero.
NormalizeFallback(v) ==
  IF FEq(length(v), Zero) THEN Ok(New(One, Zero, Zero))
  ELSE DivScal(v, F64S(length(v)))

normalize(v) == DivScal(v, F64S(length(v)))

dot(v1, v2) ==
  FAdd(FAdd(FMul(v1.x, v2.x), FMul(v1.y, v2.y)), FMul(v1.z, v2.z))

\* cross with v1.x for v1.y in the last product.
CrossSlip(v1, v2) ==
  New(FSub(FMul(v1.y, v2.z), FMul(v2.y, v1.z)),
      FSub(FMul(v1.z, v2.x), FMul(v2.z, v1.x)),
      FSub(FMul(v1.x, v2.y), FMul(v2.x, v1.x)))

cross(v1, v2) ==
  New(FSub(FMul(v1.y, v2.z), FMul(v2.y, v1.z)),
      FSub(FMul(v1.z, v2.x), FMul(v2.z, v1.x)),
      FSub(FMul(v1.x, v2.y), FMul(v2.x, v1.y)))

\* n * 2.*dot(n, v) - v parses as ((n * 2.) * dot(n, v)) - v.
reflect_opt(v, n) ==
  VSub(MulScal(MulScal(n, F64S(Two)), F64S(dot(n, v))), v)

\* reflect without the normalization of n.
ReflectUnnormalized(v, n0) ==
  Ok(VSub(MulScal(MulScal(n0, F64S(Two)), F64S(dot(n0, v))), v))

reflect(v, n0) ==
  LET r == normalize(n0)
  IN  IF ~r.ok THEN Panic
      ELSE LET n == r.v
           IN  Ok(VSub(MulScal(MulScal(n, F64S(Two)), F64S(dot(n, v))), v))

-----------------------------------------------------------------------------
(* Inputs *)

\* Component values the vector arguments are built from: zero, one, the
\* largest finite float, the smallest subnormal, a negative, a value whose
\* products round, then the non-finite and signed-zero cases.
ValList == << Zero, One, Huge, Tiny, NegOne, Odd, Inf(0), NaN, NegZero, Inf(1) >>
CompVals == {ValList[i] : i \in 1..(IF NVals < Len(ValList) THEN NVals ELSE Len(ValList))}
VecIn == {New(vx, vy, vz) : vx \in CompVals, vy \in CompVals, vz \in CompVals}

\* Scalar arguments: integer and floating literals, zero in each form.
ScalIn == {IntS(0), IntS(2), IntS(0 - 5),
           F64S(Zero), F64S(NegZero), F64S(One), F64S(Tiny), F64S(Huge),
           F64S(NaN), F64S(Inf(0))}

-----------------------------------------------------------------------------
(* State: the call in progress, its arguments and its outcome *)

\* op, a, b, s, res: the operation called, its vector and scalar arguments and
\* its outcome.  pc, l, nrej, ndraws, rejLong: the position of a running
\* rand_on_unit_sphere call (whose current sample is a), the length of its
\* current sample, and the record of its earlier draws.
VARIABLES op, a, b, s, res, pc, l, nrej, ndraws, rejLong

vars == <<op, a, b, s, res, pc, l, nrej, ndraws, rejLong>>
rnd == <<pc, l, nrej, ndraws, rejLong>>

Init ==
  /\ op = "idle"
  /\ a = ZeroVec
  /\ b = ZeroVec
  /\ s = IntS(0)
  /\ res = Ok(ZeroVec)
  /\ pc = "idle"
  /\ l = Zero
  /\ nrej = 0
  /\ ndraws = 0
  /\ rejLong = TRUE

CallAdd ==
  /\ op = "idle"
  /\ \E u \in VecIn, v \in VecIn :
       /\ op' = "add" /\ a' = u /\ b' = v /\ res' = Ok(VAdd(u, v))
  /\ UNCHANGED <<s, rnd>>

\* The difference of the sum just computed and its second operand.
CallSubBack ==
  /\ op = "add"
  /\ op' = "add_sub" /\ res' = Ok(VSub(res.v, b))
  /\ UNCHANGED <<a, b, s, rnd>>

CallCross ==
  /\ op = "idle"
  /\ \E u \in VecIn, v \in VecIn :
       /\ op' = "cross" /\ a' = u /\ b' = v /\ res' = Ok(cross(u, v))
  /\ UNCHANGED <<s, rnd>>

CallDivVec ==
  /\ op = "idle"
  /\ \E u \in VecIn, v \in VecIn :
       /\ op' = "div_vec" /\ a' = u /\ b' = v /\ res' = DivVec(u, v)
  /\ UNCHANGED <<s, rnd>>

CallDivScal ==
  /\ op = "idle"
  /\ \E u \in VecIn, sc \in ScalIn :
       /\ op' = "div_scal" /\ a' = u /\ s' = sc /\ res' = DivScal(u, sc)
  /\ UNCHANGED <<b, rnd>>

CallNormalize ==
  /\ op = "idle"
  /\ \E v \in VecIn :
       /\ op' = "normalize" /\ a' = v /\ res' = normalize(v)
  /\ UNCHANGED <<b, s, rnd>>

CallReflect ==
  /\ op = "idle"
  /\ \E v \in VecIn, n \in VecIn :
       /\ op' = "reflect" /\ a' = v /\ b' = n /\ res' = reflect(v, n)
  /\ UNCHANGED <<s, rnd>>

CallReflectOpt ==
  /\ op = "idle"
  /\ \E v \in VecIn, n \in VecIn :
       /\ op' = "reflect_opt" /\ a' = v /\ b' = n /\ res' = Ok(reflect_opt(v, n))
  /\ UNCHANGED <<s, rnd>>

\* rand_in_unit_cube: each component any float of [-1, 1].
CubeVals == {x \in Floats : IsFin(x) /\ x.m <= UnitOne} \ {NegZero}
rand_in_unit_cube == {New(vx, vy, vz) : vx \in CubeVals, vy \in CubeVals, vz \in CubeVals}

\* if l <= 1.
AcceptsLe(len) == FLt(len, One) \/ FEq(len, One)

\* if l < 1.
Accepts(len) == FLt(len, One)

\* A loop that gives up after MaxRej rejected samples.
AfterRejectCapped(n) == IF n < MaxRej THEN "loop" ELSE "panic"

\* The end of a loop body whose sample was not accepted: the loop goes on.
AfterReject(n) == "loop"

Bump(n, cap) == IF n < cap THEN n + 1 ELSE n

CallRandOnUnitSphere ==
  /\ op = "idle"
  /\ op' = "rand_on_unit_sphere" /\ pc' = "loop"
  /\ UNCHANGED <<a, b, s, res, l, nrej, ndraws, rejLong>>

\* let a = rand_in_unit_cube(); let l = length(a);
Draw ==
  /\ pc = "loop"
  /\ a' \in rand_in_unit_cube
  /\ l' = length(a')
  /\ pc' = "test"
  /\ ndraws' = Bump(ndraws, MaxRej + 1)
  /\ UNCHANGED <<op, b, s, res, nrej, rejLong>>

\* if l < 1. { return a/l; }, else the next iteration.
TestLen ==
  /\ pc = "test"
  /\ IF Accepts(l)
     THEN /\ res' = DivScal(a, F64S(l))
          /\ pc' = IF res'.ok THEN "done" ELSE "panic"
          /\ UNCHANGED <<a, l, nrej, rejLong>>
     ELSE /\ pc' = AfterReject(nrej)
          /\ a' = ZeroVec /\ l' = Zero
          /\ nrej' = Bump(nrej, MaxRej)
          /\ rejLong' = (rejLong /\ (FLt(One, l) \/ FEq(l, One)))
          /\ UNCHANGED res
  /\ UNCHANGED <<op, b, s, ndraws>>

\* A draw whose sample is shorter than 1.
DrawShort == Draw /\ Accepts(l')

NextRand == CallRandOnUnitSphere \/ Draw \/ TestLen

NextAlg == CallAdd \/ CallSubBack \/ CallCross

NextDiv == CallDivVec \/ CallDivScal

NextReflect == CallNormalize \/ CallReflect \/ CallReflectOpt

SpecAlg == Init /\ [][NextAlg]_vars
SpecDiv == Init /\ [][NextDiv]_vars
SpecReflect == Init /\ [][NextReflect]_vars
SpecRand == Init /\ [][NextRand]_vars
\* The random source eventually yields a sample shorter than 1, and a
\* running call takes its next step.
SpecRandFair == SpecRand /\ SF_vars(DrawShort) /\ WF_vars(TestLen)

Next == NextAlg \/ NextDiv \/ NextReflect \/ NextRand
Spec == Init /\ [][Next]_vars

-----------------------------------------------------------------------------
(* Properties *)

IsZeroVec(v) == IsZero(v.x) /\ IsZero(v.y) /\ IsZero(v.z)
HasZeroComp(v) == IsZero(v.x) \/ IsZero(v.y) \/ IsZero(v.z)
HasNaN(v) == IsNaN(v.x) \/ IsNaN(v.y) \/ IsNaN(v.z)
FiniteNonzero(x) == IsFin(x) /\ x.m # 0
AllFiniteNonzero(v) == FiniteNonzero(v.x) /\ FiniteNonzero(v.y) /\ FiniteNonzero(v.z)
\* Two f64 compare equal, or are both NaN.
SameF(x, y) == FEq(x, y) \/ (IsNaN(x) /\ IsNaN(y))
SameVec(u, v) == SameF(u.x, v.x) /\ SameF(u.y, v.y) /\ SameF(u.z, v.z)
\* The f64 sum of two finite floats is their exact sum.
ExactSum(x, y) ==
  /\ IsFin(x) /\ IsFin(y) /\ IsFin(FAdd(x, y))
  /\ Val(FAdd(x, y)) = Val(x) + Val(y)
ExactSums(u, v) == ExactSum(u.x, v.x) /\ ExactSum(u.y, v.y) /\ ExactSum(u.z, v.z)

\* C1: a / b panics for every dividend a and every divisor b with at least
\* one component equal to zero, whatever the other two components are.
C1_ZeroComponentPanics ==
  (op = "div_vec" /\ HasZeroComp(b)) => ~res.ok

\* C2: v / s panics whenever the scalar s converts to zero; for every other s
\* it returns (v.x/s, v.y/s, v.z/s).
C2_DivScalar ==
  op = "div_scal" =>
    IF IsZero(Into(s)) THEN ~res.ok
    ELSE /\ res.ok
         /\ res.v = New(FDiv(a.x, Into(s)), FDiv(a.y, Into(s)), FDiv(a.z, Into(s)))

C2_Witness ==
  op = "div_scal" /\ s = IntS(0) /\ ~IsZeroVec(a) /\ ~res.ok

\* C3: no call of rand_on_unit_sphere reaches the division-by-zero panic,
\* whatever samples of [-1, 1]^3 rand_in_unit_cube returns.
C3_RandNeverPanics == pc # "panic"

\* C4: normalize panics on the zero vector, reflect(v, n) panics for every v
\* when n is the zero vector, and reflect_opt never panics.
C4_ZeroVectorPanics ==
  /\ (op = "normalize" /\ IsZeroVec(a)) => ~res.ok
  /\ (op = "reflect" /\ IsZeroVec(b)) => ~res.ok
  /\ op = "reflect_opt" => res.ok

C4_Witness ==
  op = "reflect" /\ IsZeroVec(b) /\ ~IsZeroVec(a) /\ ~res.ok

\* C5 as stated: for every v and every non-zero n, reflect(v, n) ==
\* reflect_opt(v, normalize(n)) under Vec3's equality.
C5_ReflectEqual ==
  (op = "reflect" /\ ~IsZeroVec(b) /\ res.ok) =>
    VEq(res.v, reflect_opt(a, normalize(b).v))

\* C5 amended: for every v and every non-zero n, reflect(v, n) panics exactly
\* when normalize(n) does, and otherwise each of its components compares equal
\* to that of reflect_opt(v, normalize(n)) or is NaN in both; the two vectors
\* are equal when the result holds no NaN.
C5_ReflectSame ==
  (op = "reflect" /\ ~IsZeroVec(b)) =>
    /\ res.ok <=> normalize(b).ok
    /\ res.ok => SameVec(res.v, reflect_opt(a, normalize(b).v))
    /\ (res.ok /\ ~HasNaN(res.v)) => VEq(res.v, reflect_opt(a, normalize(b).v))

C5_Witness ==
  /\ op = "reflect" /\ ~IsZeroVec(b) /\ res.ok /\ ~HasNaN(res.v)
  /\ ~FEq(length(b), One)
  /\ ~VEq(res.v, reflect_opt(a, b))

\* C6 as stated: (a + b) - b == a for all vectors a and b.
C6_AddSubEqual ==
  op = "add_sub" => VEq(res.v, a)

\* C6 amended: (a + b) - b == a for all vectors a and b of finite components
\* whose component sums a.x + b.x, a.y + b.y, a.z + b.z are computed without
\* rounding or overflow.
C6_AddSubExact ==
  (op = "add_sub" /\ ExactSums(a, b)) => VEq(res.v, a)

C6_Witness ==
  /\ op = "add_sub" /\ ExactSums(a, b)
  /\ AllFiniteNonzero(a) /\ AllFiniteNonzero(b) /\ VEq(res.v, a)

\* f64 negation of each component.
VNeg(v) == New(FNeg(v.x), FNeg(v.y), FNeg(v.z))

\* C7 as stated: cross(a, b) == -cross(b, a) for all vectors a and b.
C7_CrossAntiEqual ==
  op = "cross" => VEq(res.v, VNeg(cross(b, a)))

\* C7 amended: every component of cross(a, b) compares equal to the negated
\* component of cross(b, a) or is NaN in both; cross(a, b) == -cross(b, a)
\* for all a and b for which cross(a, b) holds no NaN.
C7_CrossAntiSame ==
  op = "cross" =>
    /\ SameVec(res.v, VNeg(cross(b, a)))
    /\ ~HasNaN(res.v) => VEq(res.v, VNeg(cross(b, a)))

C7_Witness ==
  /\ op = "cross" /\ AllFiniteNonzero(res.v)
  /\ VEq(res.v, VNeg(cross(b, a)))

\* C8: for every divisor b whose components are all finite and nonzero, a / b
\* does not panic and returns (a.x/b.x, a.y/b.y, a.z/b.z).
C8_NonzeroDivisorReturns ==
  (op = "div_vec" /\ AllFiniteNonzero(b)) =>
    /\ res.ok
    /\ res.v = New(FDiv(a.x, b.x), FDiv(a.y, b.y), FDiv(a.z, b.z))

\* C9: when rand_on_unit_sphere returns, it returns a / length(a) for the
\* last sample a drawn, whose length is below 1; every sample drawn before it
\* had a length of at least 1, and it is the last sample drawn.
C9_ReturnsFirstShortSample ==
  pc = "done" =>
    /\ l = length(a)
    /\ FLt(l, One)
    /\ res.ok
    /\ res.v = New(FDiv(a.x, l), FDiv(a.y, l), FDiv(a.z, l))
    /\ rejLong
    /\ ndraws = nrej + 1

C9_Witness ==
  pc = "done" /\ nrej >= 2 /\ ~IsZeroVec(a)

\* C10: a sample of length >= 1 never ends the loop, however many were
\* rejected before it; and if a sample shorter than 1 is eventually drawn,
\* every call eventually returns or panics.
C10_UnboundedAndTerminates ==
  /\ [][(pc = "test" /\ ~FLt(l, One)) => pc' = "loop"]_vars
  /\ (pc = "loop") ~> (pc \in {"done", "panic"})

C10_Witness ==
  pc = "done" /\ nrej = MaxRej

=============================================================================
